---- MODULE Spec2Model ----
(***************************************************************************)
(* Model of scripts/implementations.py (mini-batch sampler, clipping,      *)
(* cross-entropy loss and gradient, the two training loops) and of         *)
(* dataprocess/process.py (remove_outliers).                               *)
(*                                                                         *)
(* numpy arrays are sequences; a matrix is a sequence of rows.  Python     *)
(* indices are 0-based, sequences here are 1-based: row i of the code is   *)
(* element i+1.  Floating point is modelled in fixed point: weights and    *)
(* linear scores on the integer grid, probabilities in units of 10^-7      *)
(* (fine enough that sigmoid(15) /= 1), losses in units of 10^-3.          *)
(***************************************************************************)
EXTENDS Integers, Sequences, FiniteSets, TLC

(***************************************************************************)
(* Bounds of the model.                                                    *)
(***************************************************************************)
MaxN == 3
MaxBatch == 3
MaxNumBatches == 3
MaxIters == 2
MaxTrainN == 2
MaxRows == 4

(***************************************************************************)
(* Generic helpers.                                                        *)
(***************************************************************************)
Min(a, b) == IF a <= b THEN a ELSE b

Max(a, b) == IF a >= b THEN a ELSE b

Perms(n) == {p \in [1..n -> 1..n] : \A i, j \in 1..n : p[i] = p[j] => i = j}

Identity(n) == [i \in 1..n |-> i]

RECURSIVE SumSeq(_)
SumSeq(s) == IF s = <<>> THEN 0 ELSE Head(s) + SumSeq(Tail(s))

RECURSIVE Concat(_)
Concat(ss) == IF ss = <<>> THEN <<>> ELSE Head(ss) \o Concat(Tail(ss))

\* a[start:end] of Python for a of length Len(a): negative indices count from
\* the end, indices are clamped to [0, len], start >= end gives the empty slice.
PyIndex(i, n) == IF i < 0 THEN Max(i + n, 0) ELSE Min(i, n)

PySlice(a, start, end) ==
    SubSeq(a, PyIndex(start, Len(a)) + 1, PyIndex(end, Len(a)))

\* a[indices] of numpy (fancy indexing): a new array, row i is a[indices[i]].
Take(a, indices) == [i \in 1..Len(indices) |-> a[indices[i]]]

(***************************************************************************)
(* batch_iter: one execution of the generator.  A generator object is a    *)
(* record of its locals; BatchInit runs the code before the loop           *)
(* (lines 14-22), BatchYields / BatchValue are one loop iteration          *)
(* (lines 23-27).  perm is the outcome of np.random.permutation.           *)
(* idx is a ghost: the original row index of each row of shuffled_y.       *)
(***************************************************************************)
DefaultNumBatches == 1

ShuffledY(y, perm, shuffle) == IF shuffle THEN Take(y, perm) ELSE y

\* faulty variant of ShuffledTx: the permutation is applied to y only
ShuffledTxNotShuffled(tx, perm, shuffle) == tx

ShuffledTx(tx, perm, shuffle) == IF shuffle THEN Take(tx, perm) ELSE tx

BatchInit(y, tx, batch_size, num_batches, shuffle, perm) ==
    [ data_size   |-> Len(y),
      shuffled_y  |-> ShuffledY(y, perm, shuffle),
      shuffled_tx |-> ShuffledTx(tx, perm, shuffle),
      idx         |-> IF shuffle THEN perm ELSE Identity(Len(y)),
      batch_size  |-> batch_size,
      num_batches |-> num_batches,
      batch_num   |-> 0 ]

StartIndex(g) == g.batch_num * g.batch_size

\* faulty variant of EndIndex: the bound is the last index, not the length
EndIndexDropsLast(g) ==
    Min((g.batch_num + 1) * g.batch_size, g.data_size - 1)

EndIndex(g) == Min((g.batch_num + 1) * g.batch_size, g.data_size)

BatchYields(g) == StartIndex(g) /= EndIndex(g)

BatchValue(g) ==
    [ y     |-> PySlice(g.shuffled_y, StartIndex(g), EndIndex(g)),
      tx    |-> PySlice(g.shuffled_tx, StartIndex(g), EndIndex(g)),
      idx   |-> PySlice(g.idx, StartIndex(g), EndIndex(g)),
      b     |-> g.batch_num,
      start |-> StartIndex(g),
      end   |-> EndIndex(g) ]

BatchAdvance(g) == [g EXCEPT !.batch_num = g.batch_num + 1]

BatchExhausted(g) == g.batch_num >= g.num_batches

(***************************************************************************)
(* Arrays live in a heap: address -> contents.  A name of the code is an   *)
(* address, so two names can denote one array.  An array nobody refers to  *)
(* any more is released (reference counting).                              *)
(***************************************************************************)
RECURSIVE MaxOf(_)
MaxOf(S) == IF S = {} THEN 0
            ELSE LET x == CHOOSE v \in S : TRUE
                 IN Max(x, MaxOf(S \ {x}))

\* a new array holding v
Alloc(hp, v) ==
    LET a == MaxOf(DOMAIN hp) + 1
    IN [heap |-> [r \in (DOMAIN hp) \cup {a} |-> IF r = a THEN v ELSE hp[r]],
        ref  |-> a]

Release(hp, live) == [r \in (DOMAIN hp) \cap live |-> hp[r]]

(***************************************************************************)
(* Fixed point.  ProbOne is 1.0 on the probability grid, LossOne is 1.0 on *)
(* the loss grid.  SigmoidTable[k+1] is 1/(1+exp(-k)) for k = 0..16; from  *)
(* 17 on the value rounds to 1.  LogOfSigmoid[k+1] is log(sigmoid(k)),     *)
(* LogOfCoSigmoid[k+1] is log(1 - sigmoid(k)) = log(sigmoid(-k)).          *)
(***************************************************************************)
ProbOne == 10^7

LossOne == 10^3

SigmoidTable ==
    << 5000000, 7310586, 8807971, 9525741, 9820138, 9933071, 9975274,
       9990889, 9996646, 9998766, 9999546, 9999833, 9999939, 9999977,
       9999992, 9999997, 9999999 >>

LogOfSigmoid ==
    << -693, -313, -127, -49, -18, -7, -2, -1, 0, 0, 0, 0, 0, 0, 0, 0, 0 >>

LogOfCoSigmoid ==
    << -693, -1313, -2127, -3049, -4018, -5007, -6002, -7001, -8000, -9000,
       -10000, -11000, -12000, -13000, -14000, -15000, -16000 >>

Abs(x) == IF x >= 0 THEN x ELSE -x

\* a / b rounded to the nearest integer (b > 0)
RoundDiv(a, b) == (2 * a + b) \div (2 * b)

\* sigmoid(z) of one element: 1.0 / (1 + exp(-z))
Sigmoid1(z) ==
    LET v == IF Abs(z) >= Len(SigmoidTable) THEN ProbOne
             ELSE SigmoidTable[Abs(z) + 1]
    IN IF z >= 0 THEN v ELSE ProbOne - v

sigmoid(z) == [i \in 1..Len(z) |-> Sigmoid1(z[i])]

\* np.log of one probability.  log(0) is -inf in the code; it has no value
\* here, and no reachable state asks for it.
Log1(p) ==
    IF p = ProbOne THEN 0
    ELSE IF 2 * p >= ProbOne
         THEN LogOfSigmoid[CHOOSE k \in 1..Len(SigmoidTable) :
                               SigmoidTable[k] = p]
         ELSE LogOfCoSigmoid[CHOOSE k \in 1..Len(SigmoidTable) :
                                 SigmoidTable[k] = ProbOne - p]

Dot(a, b) == SumSeq([j \in 1..Len(a) |-> a[j] * b[j]])

\* tx @ w
MatVec(tx, w) == [i \in 1..Len(tx) |-> Dot(tx[i], w)]

\* tx.T @ v, a vector with one entry per column of tx
TransposeVec(tx, v, ncols) ==
    [j \in 1..ncols |-> SumSeq([i \in 1..Len(tx) |-> tx[i][j] * v[i]])]

(***************************************************************************)
(* clipping(h): two masked assignments into h itself, then return h.       *)
(***************************************************************************)
abs_threshold == 15

\* faulty variant of ClipValues: the assignment for h < -abs_threshold is missing
ClipUpperOnly(v) ==
    [i \in 1..Len(v) |-> IF v[i] > abs_threshold THEN abs_threshold ELSE v[i]]

ClipValues(v) ==
    LET hi == [i \in 1..Len(v) |->
                  IF v[i] > abs_threshold THEN abs_threshold ELSE v[i]]
    IN [i \in 1..Len(v) |->
           IF hi[i] < -abs_threshold THEN -abs_threshold ELSE hi[i]]

clipping(hp, h) ==
    [heap |-> [hp EXCEPT ![h] = ClipValues(hp[h])], ret |-> h]

(***************************************************************************)
(* Loss and gradient.  y, tx, w are addresses in hp.  A loss is on the     *)
(* loss grid, a gradient on the probability grid.                          *)
(***************************************************************************)
cross_entropy_loss(hp, y, tx, w) ==
    LET t  == Alloc(hp, MatVec(hp[tx], hp[w]))
        c  == clipping(t.heap, t.ref)
        h  == sigmoid(c.heap[c.ret])
        yv == hp[y]
    IN [heap  |-> Release(c.heap, DOMAIN hp),
        value |-> (- SumSeq([i \in 1..Len(yv) |-> yv[i] * Log1(h[i])]))
                  + (- SumSeq([i \in 1..Len(yv) |->
                                  (1 - yv[i]) * Log1(ProbOne - h[i])]))]

cross_entropy_gradient(hp, y, tx, w) ==
    LET h  == sigmoid(MatVec(hp[tx], hp[w]))
        yv == hp[y]
    IN TransposeVec(hp[tx], [i \in 1..Len(yv) |-> h[i] - ProbOne * yv[i]],
                    Len(hp[w]))

regularized_cross_entropy_loss(hp, y, tx, w, lambda_) ==
    LET l == cross_entropy_loss(hp, y, tx, w)
    IN [heap  |-> l.heap,
        value |-> l.value + lambda_ * LossOne * Dot(hp[w], hp[w])]

\* faulty variant of regularized_cross_entropy_gradient: 2 * w without lambda_
RegGradientDropsLambda(hp, y, tx, w, lambda_) ==
    LET g == cross_entropy_gradient(hp, y, tx, w)
    IN [j \in 1..Len(g) |-> g[j] + 2 * ProbOne * hp[w][j]]

regularized_cross_entropy_gradient(hp, y, tx, w, lambda_) ==
    LET g == cross_entropy_gradient(hp, y, tx, w)
    IN [j \in 1..Len(g) |-> g[j] + 2 * lambda_ * ProbOne * hp[w][j]]

(***************************************************************************)
(* State.                                                                  *)
(***************************************************************************)
VARIABLES
    \* a batch_iter call on its own: arguments, generator locals, yields so far
    bi_args, bi_gen, bi_out, bi_pc,
    \* the arrays, shared by a clipping call and a training run
    heap,
    \* a clipping call: the argument, the array as passed, the returned name
    c_arg, c_h0, c_ret, c_pc,
    \* a training run: scalar arguments, the heap at the call, the locals w,
    \* loss, n_iter, the generator, the loop variables of the inner for, the
    \* number of weight updates so far, the outcome, the position
    args, heap0, w, loss, n_iter, gen, minibatch, updates, ret, pc,
    \* two training runs side by side on the same arguments and batches
    eq_args, eq_gen, eq_plain, eq_reg, eq_iter, eq_pc,
    \* a remove_outliers call
    ro_args, ro_ret, ro_pc

batchVars == <<bi_args, bi_gen, bi_out, bi_pc>>

clipVars == <<c_arg, c_h0, c_ret, c_pc>>

trainVars == <<args, heap0, w, loss, n_iter, gen, minibatch, updates, ret, pc>>

equivVars == <<eq_args, eq_gen, eq_plain, eq_reg, eq_iter, eq_pc>>

outlierVars == <<ro_args, ro_ret, ro_pc>>

vars == <<batchVars, heap, clipVars, trainVars, equivVars, outlierVars>>

BatchFrame == UNCHANGED <<heap, clipVars, trainVars, equivVars, outlierVars>>

ClipFrame == UNCHANGED <<batchVars, trainVars, equivVars, outlierVars>>

TrainFrame == UNCHANGED <<batchVars, clipVars, equivVars, outlierVars>>

EquivFrame == UNCHANGED <<batchVars, heap, clipVars, trainVars, outlierVars>>

OutlierFrame == UNCHANGED <<batchVars, heap, clipVars, trainVars, equivVars>>

NoGen == [batch_num |-> -1]

(***************************************************************************)
(* BatchSpec: one call of batch_iter(y, tx, batch_size, num_batches,       *)
(* shuffle), consumed to exhaustion.  Feature rows carry their row number  *)
(* so that rows are distinguishable.                                       *)
(***************************************************************************)
Labels == {0, 1}

BatchSizes == -1..MaxBatch

BatchInputs ==
    { [y |-> y, tx |-> [i \in 1..Len(y) |-> <<i>>],
       batch_size |-> bs, num_batches |-> nb, shuffle |-> sh] :
        y \in UNION {[1..n -> Labels] : n \in 0..MaxN},
        bs \in BatchSizes, nb \in 0..MaxNumBatches, sh \in BOOLEAN }

Unbound == [bound |-> FALSE]

BatchIdle ==
    /\ bi_args = [batch_size |-> 0]
    /\ bi_gen = NoGen
    /\ bi_out = <<>>
    /\ bi_pc = "idle"

ClipIdle ==
    /\ c_arg = 0
    /\ c_h0 = <<>>
    /\ c_ret = 0
    /\ c_pc = "idle"

TrainIdle ==
    /\ args = [max_iters |-> 0]
    /\ heap0 = <<>>
    /\ w = 0
    /\ loss = Unbound
    /\ n_iter = 0
    /\ gen = NoGen
    /\ minibatch = Unbound
    /\ updates = 0
    /\ ret = Unbound
    /\ pc = "idle"

EquivIdle ==
    /\ eq_args = [max_iters |-> 0]
    /\ eq_gen = NoGen
    /\ eq_plain = Unbound
    /\ eq_reg = Unbound
    /\ eq_iter = 0
    /\ eq_pc = "idle"

OutlierIdle ==
    /\ ro_args = [custom_range |-> Unbound]
    /\ ro_ret = Unbound
    /\ ro_pc = "idle"

BatchSpecInit ==
    /\ bi_args \in BatchInputs
    /\ bi_gen = NoGen
    /\ bi_out = <<>>
    /\ bi_pc = "call"
    /\ heap = <<>>
    /\ ClipIdle /\ TrainIdle /\ EquivIdle /\ OutlierIdle

\* first next(): the body runs up to the loop (lines 14-22)
BatchCall ==
    /\ bi_pc = "call"
    /\ \E perm \in Perms(Len(bi_args.y)) :
         /\ (~bi_args.shuffle => perm = Identity(Len(bi_args.y)))
         /\ bi_gen' = BatchInit(bi_args.y, bi_args.tx, bi_args.batch_size,
                                bi_args.num_batches, bi_args.shuffle, perm)
    /\ bi_pc' = "loop"
    /\ UNCHANGED <<bi_args, bi_out>>
    /\ BatchFrame

\* a loop iteration that yields (lines 24-27)
BatchEmit ==
    /\ bi_pc = "loop"
    /\ ~BatchExhausted(bi_gen)
    /\ BatchYields(bi_gen)
    /\ bi_out' = Append(bi_out, BatchValue(bi_gen))
    /\ bi_gen' = BatchAdvance(bi_gen)
    /\ UNCHANGED <<bi_args, bi_pc>>
    /\ BatchFrame

\* a loop iteration with start_index = end_index (line 26 false)
BatchSkip ==
    /\ bi_pc = "loop"
    /\ ~BatchExhausted(bi_gen)
    /\ ~BatchYields(bi_gen)
    /\ bi_gen' = BatchAdvance(bi_gen)
    /\ UNCHANGED <<bi_args, bi_out, bi_pc>>
    /\ BatchFrame

\* range(num_batches) is exhausted: StopIteration
BatchStop ==
    /\ bi_pc = "loop"
    /\ BatchExhausted(bi_gen)
    /\ bi_pc' = "done"
    /\ UNCHANGED <<bi_args, bi_gen, bi_out>>
    /\ BatchFrame

BatchNext == BatchCall \/ BatchEmit \/ BatchSkip \/ BatchStop

BatchSpec == BatchSpecInit /\ [][BatchNext]_vars

(***************************************************************************)
(* Claims about batch_iter.                                                *)
(***************************************************************************)
BatchN == Len(bi_args.y)

EmittedIdx == Concat([k \in 1..Len(bi_out) |-> bi_out[k].idx])

\* C2: for batch_size >= 0 every emitted batch b holds exactly the rows
\* [b*batch_size, min((b+1)*batch_size, n)) and holds at least one row (empty
\* or out-of-range windows are skipped).
C2_EmittedBatchesNonEmpty ==
    (bi_pc \in {"loop", "done"} /\ bi_args.batch_size >= 0) =>
        \A k \in 1..Len(bi_out) :
            LET e  == bi_out[k]
                lo == e.b * bi_args.batch_size
                hi == Min((e.b + 1) * bi_args.batch_size, BatchN)
            IN /\ e.idx = [i \in 1..(hi - lo) |-> bi_gen.idx[lo + i]]
               /\ Len(e.y) >= 1
               /\ Len(e.tx) >= 1

\* C3: without shuffling, batch_size >= 1 and num_batches * batch_size >= n,
\* the concatenation of the emitted batches is (y, tx), every row once and in
\* order; batch_size = n with num_batches = 1 emits the one batch (y, tx).
C3_ConcatReconstructs ==
    ( /\ bi_pc = "done"
      /\ ~bi_args.shuffle
      /\ bi_args.batch_size >= 1
      /\ bi_args.num_batches * bi_args.batch_size >= BatchN ) =>
        /\ Concat([k \in 1..Len(bi_out) |-> bi_out[k].y]) = bi_args.y
        /\ Concat([k \in 1..Len(bi_out) |-> bi_out[k].tx]) = bi_args.tx
        /\ EmittedIdx = Identity(BatchN)
        /\ (bi_args.batch_size = BatchN /\ bi_args.num_batches = 1) =>
               /\ Len(bi_out) = 1
               /\ bi_out[1].y = bi_args.y
               /\ bi_out[1].tx = bi_args.tx

C3_Witness ==
    /\ bi_pc = "done"
    /\ ~bi_args.shuffle
    /\ bi_args.batch_size = 2
    /\ bi_args.num_batches = 2
    /\ BatchN = 3
    /\ Len(bi_out) = 2
    /\ Len(bi_out[2].y) = 1

\* C4: with shuffling, every emitted batch has as many labels as feature rows,
\* position i of both is the same original row, and no original row is emitted
\* twice in one call.
C4_ShuffleAligned ==
    (bi_pc \in {"loop", "done"} /\ bi_args.shuffle) =>
        /\ \A k \in 1..Len(bi_out) :
               LET e == bi_out[k]
               IN /\ Len(e.y) = Len(e.tx)
                  /\ Len(e.idx) = Len(e.y)
                  /\ \A i \in 1..Len(e.y) :
                         /\ e.y[i] = bi_args.y[e.idx[i]]
                         /\ e.tx[i] = bi_args.tx[e.idx[i]]
        /\ \A i, j \in 1..Len(EmittedIdx) :
               EmittedIdx[i] = EmittedIdx[j] => i = j

C4_Witness ==
    /\ bi_pc = "done"
    /\ bi_args.shuffle
    /\ bi_gen.idx /= Identity(BatchN)
    /\ Len(bi_out) >= 2
    /\ Len(bi_out[1].y) >= 2
    /\ bi_out[1].y /= SubSeq(bi_args.y, 1, Len(bi_out[1].y))

(***************************************************************************)
(* ClipSpec: one call clipping(h) on an array h of the caller.             *)
(***************************************************************************)
MaxClipLen == 3

ClipElements == {-16, -15, -3, 0, 15, 16}

ClipSpecInit ==
    /\ \E n \in 1..MaxClipLen : \E h \in [1..n -> ClipElements] :
         /\ heap = <<h>>
         /\ c_h0 = h
    /\ c_arg = 1
    /\ c_ret = 0
    /\ c_pc = "call"
    /\ BatchIdle /\ TrainIdle /\ EquivIdle /\ OutlierIdle

ClipCall ==
    /\ c_pc = "call"
    /\ heap' = clipping(heap, c_arg).heap
    /\ c_ret' = clipping(heap, c_arg).ret
    /\ c_pc' = "returned"
    /\ UNCHANGED <<c_arg, c_h0>>
    /\ ClipFrame

ClipNext == ClipCall

ClipSpec == ClipSpecInit /\ [][ClipNext]_vars

Clipped(x) == IF x > 15 THEN 15 ELSE IF x < -15 THEN -15 ELSE x

\* C8 as claimed: the result is the clipped input, held by a copy, and the
\* array passed still holds its original values.
C8_ClippingReturnsCopy ==
    c_pc = "returned" =>
        /\ Len(heap[c_ret]) = Len(c_h0)
        /\ \A i \in 1..Len(c_h0) : heap[c_ret][i] = Clipped(c_h0[i])
        /\ c_ret /= c_arg
        /\ heap[c_arg] = c_h0

\* C8 as amended: the result is the clipped input, and it is the array that
\* was passed, which therefore holds the clipped values after the call.
C8_ClippingInPlace ==
    c_pc = "returned" =>
        /\ Len(heap[c_ret]) = Len(c_h0)
        /\ \A i \in 1..Len(c_h0) : heap[c_ret][i] = Clipped(c_h0[i])
        /\ c_ret = c_arg
        /\ heap[c_arg] = [i \in 1..Len(c_h0) |-> Clipped(c_h0[i])]

C8_Witness ==
    /\ c_pc = "returned"
    /\ \E i \in 1..Len(c_h0) : c_h0[i] > 15
    /\ \E i \in 1..Len(c_h0) : c_h0[i] < -15
    /\ \E i \in 1..Len(c_h0) : c_h0[i] = -3
    /\ heap[c_arg] /= c_h0

(***************************************************************************)
(* Spec: one run of logistic_regression or reg_logistic_regression.        *)
(* The caller's arrays y, tx, initial_w are at the addresses Caller; the   *)
(* scalar arguments are in args.  A mini-batch is a view of the            *)
(* generator's shuffled copy; nothing writes through it, so it is held as  *)
(* an array of its own.  n_iter counts the epochs completed.               *)
(***************************************************************************)
MaxTrainBatch == 2

Caller == [y |-> 1, tx |-> 2, initial_w |-> 3]

CallerRefs == {Caller.y, Caller.tx, Caller.initial_w}

TxRows == {<<1, 0>>, <<2, -1>>}

NumFeatures == Len(CHOOSE r \in TxRows : TRUE)

\* the last one has the wrong length for tx
InitialWs == {<<0, 0>>, <<8, -8>>, <<1>>}

Variants ==
    { [fn |-> "logistic_regression", lambda_ |-> 0],
      [fn |-> "reg_logistic_regression", lambda_ |-> 0],
      [fn |-> "reg_logistic_regression", lambda_ |-> 1] }

Gammas == {1}

DefaultShuffle == TRUE

\* faulty variant of CallBatchIter: num_batches covers the whole dataset
CallBatchIterFullPass(y, tx, batch_size, perm) ==
    BatchInit(y, tx, batch_size,
              IF batch_size >= 1
              THEN (Len(y) + batch_size - 1) \div batch_size ELSE 1,
              DefaultShuffle, perm)

\* batch_iter(y, tx, batch_size) as the training loops call it (lines 63, 77)
CallBatchIter(y, tx, batch_size, perm) ==
    BatchInit(y, tx, batch_size, DefaultNumBatches, DefaultShuffle, perm)

Gradient(fn, hp, y, tx, wr, lambda_) ==
    IF fn = "logistic_regression"
    THEN cross_entropy_gradient(hp, y, tx, wr)
    ELSE regularized_cross_entropy_gradient(hp, y, tx, wr, lambda_)

Loss(fn, hp, y, tx, wr, lambda_) ==
    IF fn = "logistic_regression"
    THEN cross_entropy_loss(hp, y, tx, wr)
    ELSE regularized_cross_entropy_loss(hp, y, tx, wr, lambda_)

NewWeights(wv, gamma, gr) ==
    [j \in 1..Len(wv) |-> wv[j] - RoundDiv(gamma * gr[j], ProbOne)]

\* faulty variant of UpdateW: w -= gamma * gr, written into the array w names
UpdateWInPlace(hp, wr, gamma, gr) ==
    [heap |-> [hp EXCEPT ![wr] = NewWeights(hp[wr], gamma, gr)], w |-> wr]

\* w = w - gamma * gr: the difference is a new array, and w names it
UpdateW(hp, wr, gamma, gr) ==
    LET a == Alloc(hp, NewWeights(hp[wr], gamma, gr))
    IN [heap |-> a.heap, w |-> a.ref]

\* faulty variant of EpochLossCall: the loss of the last mini-batch
EpochLossOnMinibatch(fn, hp, wr, lambda_, mb) ==
    IF mb.bound THEN Loss(fn, hp, mb.y, mb.tx, wr, lambda_)
    ELSE Loss(fn, hp, Caller.y, Caller.tx, wr, lambda_)

\* the loss recorded at the end of an epoch (lines 67, 81)
EpochLossCall(fn, hp, wr, lambda_, mb) ==
    Loss(fn, hp, Caller.y, Caller.tx, wr, lambda_)

Live(wr, mb) ==
    CallerRefs \cup {wr} \cup (IF mb.bound THEN {mb.y, mb.tx} ELSE {})

\* tx @ w and minibatch_tx @ w raise ValueError unless the lengths agree
ShapesAgree(hp, wr) == Len(hp[wr]) = NumFeatures

Init ==
    /\ \E n \in 0..MaxTrainN :
         \E y \in [1..n -> Labels], tx \in [1..n -> TxRows],
            initial_w \in InitialWs :
             /\ heap = <<y, tx, initial_w>>
             /\ heap0 = <<y, tx, initial_w>>
    /\ \E v \in Variants, max_iters \in 0..MaxIters, gamma \in Gammas,
          batch_size \in 0..MaxTrainBatch :
             args = [fn |-> v.fn, lambda_ |-> v.lambda_,
                     max_iters |-> max_iters, gamma |-> gamma,
                     batch_size |-> batch_size]
    /\ w = Caller.initial_w
    /\ loss = Unbound
    /\ n_iter = 0
    /\ gen = NoGen
    /\ minibatch = Unbound
    /\ updates = 0
    /\ ret = Unbound
    /\ pc = "for"
    /\ BatchIdle /\ ClipIdle /\ EquivIdle /\ OutlierIdle

\* the outer for takes its next n_iter and calls batch_iter (lines 62-63)
StartEpoch ==
    /\ pc = "for"
    /\ n_iter < args.max_iters
    /\ \E perm \in Perms(Len(heap[Caller.y])) :
         gen' = CallBatchIter(heap[Caller.y], heap[Caller.tx],
                              args.batch_size, perm)
    /\ pc' = "inner"
    /\ UNCHANGED <<args, heap, heap0, w, loss, n_iter, minibatch, updates, ret>>
    /\ TrainFrame

\* the generator passes a batch number without yielding
InnerSkip ==
    /\ pc = "inner"
    /\ ~BatchExhausted(gen)
    /\ ~BatchYields(gen)
    /\ gen' = BatchAdvance(gen)
    /\ UNCHANGED <<args, heap, heap0, w, loss, n_iter, minibatch, updates, ret, pc>>
    /\ TrainFrame

\* the generator yields and the body of the inner for runs (lines 64-65)
InnerUpdate ==
    /\ pc = "inner"
    /\ ~BatchExhausted(gen)
    /\ BatchYields(gen)
    /\ ShapesAgree(heap, w)
    /\ LET b  == BatchValue(gen)
           a1 == Alloc(heap, b.y)
           a2 == Alloc(a1.heap, b.tx)
           mb == [bound |-> TRUE, y |-> a1.ref, tx |-> a2.ref]
           gr == Gradient(args.fn, a2.heap, mb.y, mb.tx, w, args.lambda_)
           u  == UpdateW(a2.heap, w, args.gamma, gr)
       IN /\ minibatch' = mb
          /\ w' = u.w
          /\ heap' = Release(u.heap, Live(u.w, mb))
    /\ gen' = BatchAdvance(gen)
    /\ updates' = updates + 1
    /\ UNCHANGED <<args, heap0, loss, n_iter, ret, pc>>
    /\ TrainFrame

\* the generator yields and the gradient's tx @ w raises
InnerUpdateRaises ==
    /\ pc = "inner"
    /\ ~BatchExhausted(gen)
    /\ BatchYields(gen)
    /\ ~ShapesAgree(heap, w)
    /\ LET b  == BatchValue(gen)
           a1 == Alloc(heap, b.y)
           a2 == Alloc(a1.heap, b.tx)
           mb == [bound |-> TRUE, y |-> a1.ref, tx |-> a2.ref]
       IN /\ minibatch' = mb
          /\ heap' = Release(a2.heap, Live(w, mb))
    /\ ret' = [bound |-> TRUE, status |-> "error", error |-> "ValueError"]
    /\ pc' = "raised"
    /\ UNCHANGED <<args, heap0, w, loss, n_iter, gen, updates>>
    /\ TrainFrame

\* the generator is exhausted: the epoch's loss is recorded (lines 67, 81)
EpochLoss ==
    /\ pc = "inner"
    /\ BatchExhausted(gen)
    /\ ShapesAgree(heap, w)
    /\ LET l == EpochLossCall(args.fn, heap, w, args.lambda_, minibatch)
       IN /\ heap' = l.heap
          /\ loss' = [bound |-> TRUE, value |-> l.value]
    /\ n_iter' = n_iter + 1
    /\ gen' = NoGen
    /\ pc' = "for"
    /\ UNCHANGED <<args, heap0, w, minibatch, updates, ret>>
    /\ TrainFrame

\* the loss's tx @ w raises
EpochLossRaises ==
    /\ pc = "inner"
    /\ BatchExhausted(gen)
    /\ ~ShapesAgree(heap, w)
    /\ ret' = [bound |-> TRUE, status |-> "error", error |-> "ValueError"]
    /\ pc' = "raised"
    /\ UNCHANGED <<args, heap, heap0, w, loss, n_iter, gen, minibatch, updates>>
    /\ TrainFrame

\* return (w, loss) (lines 71, 85)
Return ==
    /\ pc = "for"
    /\ n_iter >= args.max_iters
    /\ loss.bound
    /\ ret' = [bound |-> TRUE, status |-> "ok", w |-> w, loss |-> loss.value]
    /\ pc' = "returned"
    /\ UNCHANGED <<args, heap, heap0, w, loss, n_iter, gen, minibatch, updates>>
    /\ TrainFrame

\* return (w, loss) with loss never assigned: UnboundLocalError
ReturnRaises ==
    /\ pc = "for"
    /\ n_iter >= args.max_iters
    /\ ~loss.bound
    /\ ret' = [bound |-> TRUE, status |-> "error", error |-> "UnboundLocalError"]
    /\ pc' = "raised"
    /\ UNCHANGED <<args, heap, heap0, w, loss, n_iter, gen, minibatch, updates>>
    /\ TrainFrame

Next ==
    \/ StartEpoch
    \/ InnerSkip
    \/ InnerUpdate
    \/ InnerUpdateRaises
    \/ EpochLoss
    \/ EpochLossRaises
    \/ Return
    \/ ReturnRaises

Spec == Init /\ [][Next]_vars

(***************************************************************************)
(* Claims about the training loops.                                        *)
(***************************************************************************)
TrainN == Len(heap0[Caller.y])

ShapesCompatible == Len(heap0[Caller.initial_w]) = NumFeatures

\* C1: with n >= 1 rows and batch_size >= 1 every epoch makes exactly one
\* weight update, on a batch of min(batch_size, n) rows, so a run that
\* returns has made exactly max_iters updates.
C1_OneUpdatePerEpoch ==
    (pc /= "idle" /\ TrainN >= 1 /\ args.batch_size >= 1 /\ ShapesCompatible) =>
        /\ pc = "for" => updates = n_iter
        /\ pc = "inner" =>
               updates = n_iter + (IF gen.batch_num >= 1 THEN 1 ELSE 0)
        /\ pc = "returned" => updates = args.max_iters
        /\ minibatch.bound =>
               /\ Len(heap[minibatch.y]) = Min(args.batch_size, TrainN)
               /\ Len(heap[minibatch.tx]) = Min(args.batch_size, TrainN)

C1_Witness ==
    /\ pc = "returned"
    /\ TrainN >= 2
    /\ args.batch_size = 1
    /\ args.max_iters >= 2
    /\ updates = args.max_iters

\* C5: with compatible shapes a run ends by returning, after exactly
\* max_iters epochs, the pair (final w, last recorded loss); it never ends in
\* an error.
C5_CompatibleRunsReturn ==
    (pc \in {"returned", "raised"} /\ ShapesCompatible) =>
        /\ pc = "returned"
        /\ n_iter = args.max_iters
        /\ ret.status = "ok"
        /\ ret.w = w
        /\ loss.bound
        /\ ret.loss = loss.value

\* C6: at the end of every epoch, and at the return for max_iters >= 1, the
\* recorded loss is the (regularized) loss of the full dataset at the current
\* (post-update, returned) weights.
C6_LossIsFullLossAtFinalW ==
    (pc \in {"for", "returned"} /\ n_iter >= 1) =>
        /\ loss.bound
        /\ loss.value =
              Loss(args.fn, heap, Caller.y, Caller.tx, w, args.lambda_).value
        /\ pc = "returned" => (ret.w = w /\ ret.loss = loss.value)

C6_Witness ==
    /\ pc = "returned"
    /\ args.max_iters >= 2
    /\ TrainN >= 2
    /\ args.batch_size = 1
    /\ heap[ret.w] /= heap[Caller.initial_w]
    /\ ret.loss /=
          Loss(args.fn, heap, minibatch.y, minibatch.tx, w, args.lambda_).value

\* C10: a training run never changes the caller's y, tx or initial_w.
C10_CallerArraysUnchanged ==
    pc /= "idle" => \A r \in CallerRefs : heap[r] = heap0[r]

C10_Witness ==
    /\ pc = "returned"
    /\ updates >= 2
    /\ heap[ret.w] /= heap[Caller.initial_w]
    /\ \E i \in 1..TrainN :
           Abs(MatVec(heap[Caller.tx], heap[w])[i]) > abs_threshold

(***************************************************************************)
(* EquivSpec: logistic_regression and reg_logistic_regression run side by  *)
(* side on the same arguments, and the same permutation is drawn for both  *)
(* in every epoch.  Each run is its pair of locals (w, loss).              *)
(***************************************************************************)
Lambdas == {0, 1}

\* one pass of the loop body (lines 64-65, 78-79) on the batch b
BodyOnBatch(fn, lambda_, gamma, b, wv) ==
    NewWeights(wv, gamma, Gradient(fn, <<b.y, b.tx, wv>>, 1, 2, 3, lambda_))

\* the loss of the full dataset at wv (lines 67, 81)
FullLoss(fn, lambda_, y, tx, wv) ==
    Loss(fn, <<y, tx, wv>>, Caller.y, Caller.tx, Caller.initial_w, lambda_).value

EquivInit ==
    /\ \E n \in 0..MaxTrainN :
         \E y \in [1..n -> Labels], tx \in [1..n -> TxRows],
            initial_w \in {v \in InitialWs : Len(v) = NumFeatures},
            lambda_ \in Lambdas, max_iters \in 0..MaxIters, gamma \in Gammas,
            batch_size \in 0..MaxTrainBatch :
             /\ eq_args = [y |-> y, tx |-> tx, initial_w |-> initial_w,
                           lambda_ |-> lambda_, max_iters |-> max_iters,
                           gamma |-> gamma, batch_size |-> batch_size]
             /\ eq_plain = [w |-> initial_w, loss |-> Unbound]
             /\ eq_reg = [w |-> initial_w, loss |-> Unbound]
    /\ eq_gen = NoGen
    /\ eq_iter = 0
    /\ eq_pc = "for"
    /\ heap = <<>>
    /\ BatchIdle /\ ClipIdle /\ TrainIdle /\ OutlierIdle

EquivStartEpoch ==
    /\ eq_pc = "for"
    /\ eq_iter < eq_args.max_iters
    /\ \E perm \in Perms(Len(eq_args.y)) :
         eq_gen' = CallBatchIter(eq_args.y, eq_args.tx, eq_args.batch_size, perm)
    /\ eq_pc' = "inner"
    /\ UNCHANGED <<eq_args, eq_plain, eq_reg, eq_iter>>
    /\ EquivFrame

EquivInnerSkip ==
    /\ eq_pc = "inner"
    /\ ~BatchExhausted(eq_gen)
    /\ ~BatchYields(eq_gen)
    /\ eq_gen' = BatchAdvance(eq_gen)
    /\ UNCHANGED <<eq_args, eq_plain, eq_reg, eq_iter, eq_pc>>
    /\ EquivFrame

EquivInnerUpdate ==
    /\ eq_pc = "inner"
    /\ ~BatchExhausted(eq_gen)
    /\ BatchYields(eq_gen)
    /\ eq_plain' = [eq_plain EXCEPT !.w =
           BodyOnBatch("logistic_regression", 0, eq_args.gamma,
                       BatchValue(eq_gen), eq_plain.w)]
    /\ eq_reg' = [eq_reg EXCEPT !.w =
           BodyOnBatch("reg_logistic_regression", eq_args.lambda_,
                       eq_args.gamma, BatchValue(eq_gen), eq_reg.w)]
    /\ eq_gen' = BatchAdvance(eq_gen)
    /\ UNCHANGED <<eq_args, eq_iter, eq_pc>>
    /\ EquivFrame

EquivEpochLoss ==
    /\ eq_pc = "inner"
    /\ BatchExhausted(eq_gen)
    /\ eq_plain' = [eq_plain EXCEPT !.loss =
           [bound |-> TRUE,
            value |-> FullLoss("logistic_regression", 0, eq_args.y,
                               eq_args.tx, eq_plain.w)]]
    /\ eq_reg' = [eq_reg EXCEPT !.loss =
           [bound |-> TRUE,
            value |-> FullLoss("reg_logistic_regression", eq_args.lambda_,
                               eq_args.y, eq_args.tx, eq_reg.w)]]
    /\ eq_iter' = eq_iter + 1
    /\ eq_gen' = NoGen
    /\ eq_pc' = "for"
    /\ UNCHANGED eq_args
    /\ EquivFrame

\* both runs leave the loop: each returns (w, loss), or raises when its loss
\* was never assigned
EquivReturn ==
    /\ eq_pc = "for"
    /\ eq_iter >= eq_args.max_iters
    /\ eq_pc' = "done"
    /\ UNCHANGED <<eq_args, eq_gen, eq_plain, eq_reg, eq_iter>>
    /\ EquivFrame

EquivNext ==
    \/ EquivStartEpoch
    \/ EquivInnerSkip
    \/ EquivInnerUpdate
    \/ EquivEpochLoss
    \/ EquivReturn

EquivSpec == EquivInit /\ [][EquivNext]_vars

\* C7: with lambda_ = 0 the regularized gradient and loss equal the plain
\* ones at every weight vector the runs go through, and the regularized run
\* has the same weights and the same loss as the plain run at every step and
\* at the end.
C7_LambdaZeroReducesToPlain ==
    (eq_pc /= "idle" /\ eq_args.lambda_ = 0) =>
        LET hp == <<eq_args.y, eq_args.tx, eq_reg.w>>
        IN /\ regularized_cross_entropy_gradient(hp, 1, 2, 3, 0)
                 = cross_entropy_gradient(hp, 1, 2, 3)
           /\ regularized_cross_entropy_loss(hp, 1, 2, 3, 0).value
                 = cross_entropy_loss(hp, 1, 2, 3).value
           /\ eq_reg.w = eq_plain.w
           /\ eq_reg.loss = eq_plain.loss

C7_Witness ==
    /\ eq_pc = "done"
    /\ eq_args.lambda_ = 0
    /\ eq_iter >= 2
    /\ eq_reg.loss.bound
    /\ eq_reg.w /= eq_args.initial_w
    /\ \E j \in 1..Len(eq_reg.w) : eq_reg.w[j] /= 0

(***************************************************************************)
(* OutlierSpec: one call remove_outliers(X, y, custom_range) on a matrix   *)
(* with at least one row.  None is [given |-> FALSE].  Quartiles are kept  *)
(* times 4 and the bounds times 8, which keeps them integers.              *)
(***************************************************************************)
OutlierValues == {0, 10}

None == [given |-> FALSE]

Given(lower, upper) == [given |-> TRUE, lower |-> lower, upper |-> upper]

CustomRanges ==
    { None,
      [given |-> TRUE, ranges |-> <<None, None>>],
      [given |-> TRUE, ranges |-> <<Given(0, 5), None>>],
      [given |-> TRUE, ranges |-> <<Given(0, 5)>>] }

NumCols(X) == Len(X[1])

Column(X, j) == [i \in 1..Len(X) |-> X[i][j]]

RECURSIVE Insert(_, _)
Insert(x, s) ==
    IF s = <<>> THEN <<x>>
    ELSE IF x <= Head(s) THEN <<x>> \o s
         ELSE <<Head(s)>> \o Insert(x, Tail(s))

RECURSIVE Sort(_)
Sort(s) == IF s = <<>> THEN <<>> ELSE Insert(Head(s), Sort(Tail(s)))

\* 4 * np.quantile(col, quarters / 4): linear interpolation between the two
\* order statistics around the position quarters / 4 * (n - 1)
Quantile4(col, quarters) ==
    LET srt == Sort(col)
        pos == quarters * (Len(col) - 1)
        k   == pos \div 4
        r   == pos % 4
    IN IF r = 0 THEN 4 * srt[k + 1]
       ELSE 4 * srt[k + 1] + r * (srt[k + 2] - srt[k + 1])

\* 8 * (lower_quart - 1.5 * IQR) and 8 * (upper_quart + 1.5 * IQR)
LowerBound8(col) ==
    2 * Quantile4(col, 1) - 3 * (Quantile4(col, 3) - Quantile4(col, 1))

UpperBound8(col) ==
    2 * Quantile4(col, 3) + 3 * (Quantile4(col, 3) - Quantile4(col, 1))

\* custom_keep after lines 55-66: a copy of X overwritten, column by column,
\* with 1 (True) or 0 (False)
CustomKeep(X, custom_range) ==
    [i \in 1..Len(X) |-> [j \in 1..NumCols(X) |->
        IF custom_range.given /\ custom_range.ranges[j].given
        THEN IF /\ X[i][j] >= custom_range.ranges[j].lower
                /\ X[i][j] <= custom_range.ranges[j].upper
             THEN 1 ELSE 0
        ELSE 1]]

\* np.logical_and(x1, x2, out): the third positional parameter is the array
\* the result is written to; the result is x1 AND x2
logical_and(x1, x2, out) ==
    [i \in 1..Len(x1) |-> [j \in 1..Len(x1[i]) |-> x1[i][j] /= 0 /\ x2[i][j]]]

\* to_keep (line 77)
ToKeep(X, custom_range) ==
    LET ge  == [i \in 1..Len(X) |-> [j \in 1..NumCols(X) |->
                   8 * X[i][j] >= LowerBound8(Column(X, j))]]
        le  == [i \in 1..Len(X) |-> [j \in 1..NumCols(X) |->
                   8 * X[i][j] <= UpperBound8(Column(X, j))]]
        all == logical_and(CustomKeep(X, custom_range), ge, le)
    IN [i \in 1..Len(X) |-> \A j \in 1..NumCols(X) : all[i][j]]

\* a[mask] of numpy (boolean indexing): the rows whose mask is True, in order
RECURSIVE Compress(_, _)
Compress(a, mask) ==
    IF a = <<>> THEN <<>>
    ELSE (IF Head(mask) THEN <<Head(a)>> ELSE <<>>)
         \o Compress(Tail(a), Tail(mask))

WrongLength(X, custom_range) ==
    custom_range.given /\ Len(custom_range.ranges) /= NumCols(X)

OutlierInit ==
    /\ \E n \in 1..MaxRows :
         \E X \in [1..n -> [1..2 -> OutlierValues]], y \in [1..n -> Labels],
            custom_range \in CustomRanges :
             ro_args = [X |-> X, y |-> y, custom_range |-> custom_range]
    /\ ro_ret = Unbound
    /\ ro_pc = "call"
    /\ heap = <<>>
    /\ BatchIdle /\ ClipIdle /\ TrainIdle /\ EquivIdle

\* the call returns (X, y) (lines 55-82)
RemoveOutliers ==
    /\ ro_pc = "call"
    /\ ~WrongLength(ro_args.X, ro_args.custom_range)
    /\ LET to_keep == ToKeep(ro_args.X, ro_args.custom_range)
       IN ro_ret' = [bound |-> TRUE, status |-> "ok",
                     X |-> Compress(ro_args.X, to_keep),
                     y |-> Compress(ro_args.y, to_keep)]
    /\ ro_pc' = "returned"
    /\ UNCHANGED ro_args
    /\ OutlierFrame

\* raise ValueError("custom_range has wrong length!") (lines 57-58)
RemoveOutliersRaises ==
    /\ ro_pc = "call"
    /\ WrongLength(ro_args.X, ro_args.custom_range)
    /\ ro_ret' = [bound |-> TRUE, status |-> "error", error |-> "ValueError"]
    /\ ro_pc' = "raised"
    /\ UNCHANGED ro_args
    /\ OutlierFrame

OutlierNext == RemoveOutliers \/ RemoveOutliersRaises

OutlierSpec == OutlierInit /\ [][OutlierNext]_vars

\* the row i of X is within [Q1 - 1.5*IQR, Q3 + 1.5*IQR] of every column and
\* within every custom range given
RowIsInlier(X, custom_range, i) ==
    \A j \in 1..NumCols(X) :
        /\ 8 * X[i][j] >= LowerBound8(Column(X, j))
        /\ 8 * X[i][j] <= UpperBound8(Column(X, j))
        /\ (custom_range.given /\ custom_range.ranges[j].given) =>
               /\ X[i][j] >= custom_range.ranges[j].lower
               /\ X[i][j] <= custom_range.ranges[j].upper

\* C9: remove_outliers keeps exactly the rows that lie within both IQR bounds
\* of every column and within the custom ranges, in order, in X and in y.
C9_KeepsExactlyInliers ==
    ro_pc = "returned" =>
        LET X    == ro_args.X
            mask == [i \in 1..Len(X) |->
                        RowIsInlier(X, ro_args.custom_range, i)]
        IN /\ ro_ret.X = Compress(X, mask)
           /\ ro_ret.y = Compress(ro_args.y, mask)

====
